---- MODULE Spec2Model ----
(***************************************************************************)
(* Capture-analyze-submit workflow of the two trackers (fitness_tracker,   *)
(* meal_hour).  One session of one tracker is modelled together with its   *)
(* three collaborators: the object store (bucket), the vision model and    *)
(* the warehouse table.  Strings that the code builds with f-strings are   *)
(* sequences of their pieces; "" is the empty sequence.                    *)
(***************************************************************************)
EXTENDS Integers, Sequences, FiniteSets, TLC

VARIABLES
    app,        \* which tracker this deployment runs: "fitness" or "meal"
    ws,         \* WorkoutState of the session
    ms,         \* MealState of the session
    table,      \* warehouse table of the tracker (rows in insertion order)
    gcs,        \* objects written to the bucket, in upload order
    now,        \* wall clock, in hours
    inflight,   \* handler invocations suspended at their yield, per handler
    events      \* number of events of the run so far

vars == <<app, ws, ms, table, gcs, now, inflight, events>>

----------------------------------------------------------------------------
(* Bounds of the model *)

MaxInflight == 2      \* handler invocations that can be suspended at once
MaxEvents == 4        \* events of a run: of the session, the clock, other sessions
FractionBits == 16    \* binary digits a float keeps after the point

(* Program constants *)
HistoryLimit == 10    \* LIMIT 10 of the history queries
WeekInterval == 7     \* INTERVAL 7 DAY of the weekly query
WindowHours == 8      \* timedelta(hours=8) of the eating window

\* hours of a calendar day
DayHours == 3 * WindowHours

----------------------------------------------------------------------------
(* Values *)

NoBytes == <<>>
NoStr == <<>>

\* contents of the files a user can select: a zero-length file and two images
FileData == {<<>>, <<1>>, <<2>>}

\* an rx.UploadFile: read() returns data, or raises
UploadFiles == [data : FileData, readable : {TRUE}] \cup
               {[data |-> <<>>, readable |-> FALSE]}

\* the files lists a drop can deliver (max_files=1)
FileLists == {<<>>} \cup {<<f>> : f \in UploadFiles}

B64Alphabet ==
    <<"A","B","C","D","E","F","G","H","I","J","K","L","M","N","O","P",
      "Q","R","S","T","U","V","W","X","Y","Z","a","b","c","d","e","f",
      "g","h","i","j","k","l","m","n","o","p","q","r","s","t","u","v",
      "w","x","y","z","0","1","2","3","4","5","6","7","8","9","+","/">>

B64Char(i) == B64Alphabet[i + 1]

\* base64.b64encode(data).decode(): 3 bytes -> 4 characters, "=" padding
RECURSIVE b64encode(_)
b64encode(data) ==
    IF Len(data) = 0 THEN <<>>
    ELSE IF Len(data) = 1 THEN
        <<B64Char(data[1] \div 4), B64Char((data[1] % 4) * 16), "=", "=">>
    ELSE IF Len(data) = 2 THEN
        <<B64Char(data[1] \div 4),
          B64Char((data[1] % 4) * 16 + data[2] \div 16),
          B64Char((data[2] % 16) * 4), "=">>
    ELSE
        <<B64Char(data[1] \div 4),
          B64Char((data[1] % 4) * 16 + data[2] \div 16),
          B64Char((data[2] % 16) * 4 + data[3] \div 64),
          B64Char(data[3] % 64)>> \o b64encode(SubSeq(data, 4, Len(data)))

\* f"data:image/png;base64,{base64.b64encode(upload_data).decode()}"
DataUrl(data) == <<"data:image/png;base64,">> \o b64encode(data)

\* uuid.uuid4(): a fresh identifier, here the number of the upload
uuid4 == Len(gcs) + 1

WorkoutFilename(u) == <<"workout_images/", u, ".png">>
MealFilename(u) == <<"meal_images/", u, ".png">>

\* f"gs://{bucket_name}/{filename}"
GsUri(filename) == <<"gs://", "personal_assistant_agent", "/">> \o filename

\* int(value) if value else 0, ValueError -> 0, on the strings a number
\* input can deliver
IntLiterals == [x \in {"1", "-1", "30", "100"} |->
                  CASE x = "1" -> 1 [] x = "-1" -> 0 - 1
                    [] x = "30" -> 30 [] x = "100" -> 100]

ParseIntOrZero(value) ==
    IF value = "" THEN 0
    ELSE IF value \in DOMAIN IntLiterals THEN IntLiterals[value]
    ELSE 0

\* a WorkoutAnalysis the model can return (validated against the schema)
WorkoutAnalyses ==
    { [image_description |-> "a yoga session", exercise_type |-> "Yoga",
       duration_hours |-> 0, duration_minutes |-> 20, calories_burned |-> 100],
      [image_description |-> "", exercise_type |-> "",
       duration_hours |-> 0, duration_minutes |-> 0, calories_burned |-> 0] }

\* outcome of generate_content + model_validate_json
WorkoutExtractions ==
    {[exc |-> "", result |-> r] : r \in WorkoutAnalyses} \cup
    {[exc |-> e, result |-> <<>>] : e \in {"APIError", "ValidationError"}}

----------------------------------------------------------------------------
(* WorkoutState *)

WorkoutState0 ==
    [notes |-> "", exercise_type |-> "", duration_hours |-> 0,
     duration_minutes |-> 0, calories_burned |-> 0,
     image_uri |-> NoStr, image_preview |-> NoStr, temp_file_data |-> NoBytes,
     workout_description |-> "",
     success_message |-> NoStr, error_message |-> NoStr,
     is_loading |-> FALSE, is_analyzing |-> FALSE,
     workout_history |-> <<>>,
     daily_total_hours |-> 0, daily_total_calories |-> 0,
     weekly_total_hours |-> 0, weekly_total_calories |-> 0]

MealState0 ==
    [notes |-> NoStr, current_time |-> NoStr, window_end_time |-> NoStr,
     success_message |-> NoStr, error_message |-> NoStr,
     meal_history |-> <<>>, is_loading |-> FALSE,
     image_uri |-> NoStr, image_preview |-> NoStr,
     calorie_estimate |-> 0, food_description |-> "",
     temp_file_data |-> NoBytes, is_analyzing |-> FALSE]

NoInflight == [analyze |-> 0, submit |-> 0]

\* variant: the handlers run as background tasks, outside the state lock
StateLockFree_Background == TRUE

\* Event handlers of an rx.State that are not background tasks run under the
\* session's state lock from their first statement to their last: the next
\* event of the session is processed only when no handler is suspended.
StateLockFree == inflight.analyze + inflight.submit = 0

\* the session sends its next event and the backend starts to process it
Dispatch ==
    /\ StateLockFree
    /\ events < MaxEvents
    /\ events' = events + 1

----------------------------------------------------------------------------
(* WorkoutState: image handlers *)

\* the body of the loop of handle_file_select for one file
RECURSIVE Workout_select_files(_, _)
Workout_select_files(s, files) ==
    IF files = <<>> THEN s
    ELSE LET f == Head(files)
             s1 == IF f.readable
                   THEN [s EXCEPT !.temp_file_data = f.data,
                                  !.image_preview = DataUrl(f.data)]
                   ELSE [s EXCEPT !.error_message =
                                      <<"Error loading image: ", "ReadError">>]
         IN  Workout_select_files(s1, Tail(files))

Workout_handle_file_select(files) ==
    /\ app = "fitness"
    /\ Dispatch
    /\ ws' = Workout_select_files([ws EXCEPT !.error_message = NoStr], files)
    /\ UNCHANGED <<app, ms, table, gcs, now, inflight>>

\* variant: the extraction fills in only what the form leaves empty
analyze_workout_image_FillsBlanks(s, x) ==
    IF s.image_uri = NoStr THEN [s |-> s, exc |-> "", called |-> FALSE]
    ELSE IF x.exc = ""
    THEN [s |-> [s EXCEPT !.workout_description = x.result.image_description,
                          !.exercise_type =
                              IF @ = "" THEN x.result.exercise_type ELSE @,
                          !.duration_hours =
                              IF @ = 0 THEN x.result.duration_hours ELSE @,
                          !.duration_minutes =
                              IF @ = 0 THEN x.result.duration_minutes ELSE @,
                          !.calories_burned =
                              IF @ = 0 THEN x.result.calories_burned ELSE @,
                          !.notes =
                              IF @ = "" THEN x.result.image_description ELSE @],
          exc |-> "", called |-> TRUE]
    ELSE [s |-> [s EXCEPT !.error_message = <<"Error analyzing image: ", x.exc>>],
          exc |-> x.exc, called |-> TRUE]

\* variant: the fields are assigned one by one as the response is read, so
\* that a response that fails validation has written the description
analyze_workout_image_Piecewise(s, x) ==
    IF s.image_uri = NoStr THEN [s |-> s, exc |-> "", called |-> FALSE]
    ELSE IF x.exc = ""
    THEN [s |-> [s EXCEPT !.workout_description = x.result.image_description,
                          !.exercise_type = x.result.exercise_type,
                          !.duration_hours = x.result.duration_hours,
                          !.duration_minutes = x.result.duration_minutes,
                          !.calories_burned = x.result.calories_burned,
                          !.notes = x.result.image_description],
          exc |-> "", called |-> TRUE]
    ELSE [s |-> [s EXCEPT !.error_message = <<"Error analyzing image: ", x.exc>>,
                          !.workout_description =
                              IF x.exc = "ValidationError" THEN "" ELSE @,
                          !.notes =
                              IF x.exc = "ValidationError" THEN "" ELSE @],
          exc |-> x.exc, called |-> TRUE]

\* analyze_workout_image: [s |-> state after, exc |-> exception raised or ""]
analyze_workout_image(s, x) ==
    IF s.image_uri = NoStr THEN [s |-> s, exc |-> "", called |-> FALSE]
    ELSE IF x.exc = ""
    THEN [s |-> [s EXCEPT !.workout_description = x.result.image_description,
                          !.exercise_type = x.result.exercise_type,
                          !.duration_hours = x.result.duration_hours,
                          !.duration_minutes = x.result.duration_minutes,
                          !.calories_burned = x.result.calories_burned,
                          !.notes = x.result.image_description],
          exc |-> "", called |-> TRUE]
    ELSE [s |-> [s EXCEPT !.error_message = <<"Error analyzing image: ", x.exc>>],
          exc |-> x.exc, called |-> TRUE]

\* variant: no check of the buffered bytes
Workout_handle_upload_and_analyze_call_NoGuard ==
    /\ app = "fitness"
    /\ Dispatch
    /\ inflight.analyze < MaxInflight
    /\ ws' = [ws EXCEPT !.is_analyzing = TRUE, !.error_message = NoStr]
    /\ inflight' = [inflight EXCEPT !.analyze = @ + 1]
    /\ UNCHANGED <<app, ms, table, gcs, now>>

\* handle_upload_and_analyze up to its yield
Workout_handle_upload_and_analyze_call ==
    /\ app = "fitness"
    /\ Dispatch
    /\ IF ws.temp_file_data = NoBytes
       THEN /\ ws' = [ws EXCEPT !.error_message =
                                    <<"Please select an image first!">>]
            /\ UNCHANGED inflight
       ELSE /\ inflight.analyze < MaxInflight
            /\ ws' = [ws EXCEPT !.is_analyzing = TRUE, !.error_message = NoStr]
            /\ inflight' = [inflight EXCEPT !.analyze = @ + 1]
    /\ UNCHANGED <<app, ms, table, gcs, now>>

\* variant: is_analyzing is reset on the success path only (no finally)
Workout_handle_upload_and_analyze_resume_NoFinally(upload_ok, x) ==
    /\ app = "fitness"
    /\ inflight.analyze > 0
    /\ inflight' = [inflight EXCEPT !.analyze = @ - 1]
    /\ IF ~upload_ok
       THEN /\ ws' = [ws EXCEPT !.error_message =
                                    <<"Error uploading image: ", "UploadError">>]
            /\ UNCHANGED gcs
       ELSE LET filename == WorkoutFilename(uuid4)
                s1 == [ws EXCEPT !.image_uri = GsUri(filename)]
                a == analyze_workout_image(s1, x)
            IN  /\ gcs' = Append(gcs, [name |-> filename,
                                       data |-> ws.temp_file_data])
                /\ ws' = IF a.exc = ""
                         THEN [a.s EXCEPT !.is_analyzing = FALSE]
                         ELSE [a.s EXCEPT !.error_message =
                                              <<"Error uploading image: ", a.exc>>]
    /\ UNCHANGED <<app, ms, table, now, events>>

\* variant: a failed upload discards the selected image
Workout_handle_upload_and_analyze_resume_Discards(upload_ok, x) ==
    /\ app = "fitness"
    /\ inflight.analyze > 0
    /\ inflight' = [inflight EXCEPT !.analyze = @ - 1]
    /\ IF ~upload_ok
       THEN /\ ws' = [ws EXCEPT
                         !.temp_file_data = NoBytes, !.image_preview = NoStr,
                         !.error_message =
                             <<"Error uploading image: ", "UploadError">>,
                         !.is_analyzing = FALSE]
            /\ UNCHANGED gcs
       ELSE LET filename == WorkoutFilename(uuid4)
                s1 == [ws EXCEPT !.image_uri = GsUri(filename)]
                a == analyze_workout_image(s1, x)
                s2 == IF a.exc = "" THEN a.s
                      ELSE [a.s EXCEPT !.error_message =
                                           <<"Error uploading image: ", a.exc>>]
            IN  /\ gcs' = Append(gcs, [name |-> filename,
                                       data |-> ws.temp_file_data])
                /\ ws' = [s2 EXCEPT !.is_analyzing = FALSE]
    /\ UNCHANGED <<app, ms, table, now, events>>

\* variant: an image that has a reference is uploaded again under its key
Workout_handle_upload_and_analyze_resume_ReusesKey(upload_ok, x) ==
    /\ app = "fitness"
    /\ inflight.analyze > 0
    /\ inflight' = [inflight EXCEPT !.analyze = @ - 1]
    /\ IF ~upload_ok
       THEN /\ ws' = [ws EXCEPT !.error_message =
                                    <<"Error uploading image: ", "UploadError">>,
                                !.is_analyzing = FALSE]
            /\ UNCHANGED gcs
       ELSE LET filename == IF ws.image_uri = NoStr
                            THEN WorkoutFilename(uuid4)
                            ELSE gcs[Len(gcs)].name
                s1 == [ws EXCEPT !.image_uri = GsUri(filename)]
                a == analyze_workout_image(s1, x)
                s2 == IF a.exc = "" THEN a.s
                      ELSE [a.s EXCEPT !.error_message =
                                           <<"Error uploading image: ", a.exc>>]
            IN  /\ gcs' = Append(gcs, [name |-> filename,
                                       data |-> ws.temp_file_data])
                /\ ws' = [s2 EXCEPT !.is_analyzing = FALSE]
    /\ UNCHANGED <<app, ms, table, now, events>>

\* variant: the extraction is called before the upload, on the reference the
\* draft already holds
Workout_handle_upload_and_analyze_resume_ExtractsFirst(upload_ok, x) ==
    /\ app = "fitness"
    /\ inflight.analyze > 0
    /\ inflight' = [inflight EXCEPT !.analyze = @ - 1]
    /\ LET a == analyze_workout_image(ws, x)
           s1 == IF a.exc = "" THEN a.s
                 ELSE [a.s EXCEPT !.error_message =
                                      <<"Error uploading image: ", a.exc>>]
       IN  IF a.exc # "" \/ ~upload_ok
           THEN /\ ws' = [s1 EXCEPT
                             !.error_message =
                                 IF a.exc # "" THEN @
                                 ELSE <<"Error uploading image: ", "UploadError">>,
                             !.is_analyzing = FALSE]
                /\ UNCHANGED gcs
           ELSE LET filename == WorkoutFilename(uuid4)
                IN  /\ gcs' = Append(gcs, [name |-> filename,
                                           data |-> ws.temp_file_data])
                    /\ ws' = [s1 EXCEPT !.image_uri = GsUri(filename),
                                        !.is_analyzing = FALSE]
    /\ UNCHANGED <<app, ms, table, now, events>>

\* handle_upload_and_analyze from its yield to its end
Workout_handle_upload_and_analyze_resume(upload_ok, x) ==
    /\ app = "fitness"
    /\ inflight.analyze > 0
    /\ inflight' = [inflight EXCEPT !.analyze = @ - 1]
    /\ IF ~upload_ok
       THEN /\ ws' = [ws EXCEPT !.error_message =
                                    <<"Error uploading image: ", "UploadError">>,
                                !.is_analyzing = FALSE]
            /\ UNCHANGED gcs
       ELSE LET filename == WorkoutFilename(uuid4)
                s1 == [ws EXCEPT !.image_uri = GsUri(filename)]
                a == analyze_workout_image(s1, x)
                s2 == IF a.exc = "" THEN a.s
                      ELSE [a.s EXCEPT !.error_message =
                                           <<"Error uploading image: ", a.exc>>]
            IN  /\ gcs' = Append(gcs, [name |-> filename,
                                       data |-> ws.temp_file_data])
                /\ ws' = [s2 EXCEPT !.is_analyzing = FALSE]
    /\ UNCHANGED <<app, ms, table, now, events>>

\* variant: clearing the image also empties the notes it filled in
clear_image_workout_ClearsNotes(s) ==
    [s EXCEPT !.image_uri = NoStr, !.image_preview = NoStr,
              !.workout_description = "", !.temp_file_data = NoBytes,
              !.notes = ""]

clear_image_workout(s) ==
    [s EXCEPT !.image_uri = NoStr, !.image_preview = NoStr,
              !.workout_description = "", !.temp_file_data = NoBytes]

Workout_clear_image ==
    /\ app = "fitness"
    /\ Dispatch
    /\ ws' = clear_image_workout(ws)
    /\ UNCHANGED <<app, ms, table, gcs, now, inflight>>

----------------------------------------------------------------------------
(* WorkoutState: form setters *)

\* the setters Reflex generates for notes and exercise_type
Workout_set_notes(value) ==
    /\ app = "fitness"
    /\ Dispatch
    /\ ws' = [ws EXCEPT !.notes = value]
    /\ UNCHANGED <<app, ms, table, gcs, now, inflight>>

Workout_set_exercise_type(value) ==
    /\ app = "fitness"
    /\ Dispatch
    /\ ws' = [ws EXCEPT !.exercise_type = value]
    /\ UNCHANGED <<app, ms, table, gcs, now, inflight>>

set_duration_hours(value) ==
    /\ app = "fitness"
    /\ Dispatch
    /\ ws' = [ws EXCEPT !.duration_hours = ParseIntOrZero(value)]
    /\ UNCHANGED <<app, ms, table, gcs, now, inflight>>

set_duration_minutes(value) ==
    /\ app = "fitness"
    /\ Dispatch
    /\ ws' = [ws EXCEPT !.duration_minutes = ParseIntOrZero(value)]
    /\ UNCHANGED <<app, ms, table, gcs, now, inflight>>

set_calories_burned(value) ==
    /\ app = "fitness"
    /\ Dispatch
    /\ ws' = [ws EXCEPT !.calories_burned = ParseIntOrZero(value)]
    /\ UNCHANGED <<app, ms, table, gcs, now, inflight>>

----------------------------------------------------------------------------
(* Warehouse: the fitness_tracker table and its three read queries *)

\* DATE(ts), CURRENT_DATE(): the calendar day of a time
DateOf(t) == t \div DayHours

\* the session starts on day WeekInterval, so that earlier days exist;
\* at noon, or late enough for the eating window to end on the next day
Noon == WeekInterval * DayHours + 12
Evening == WeekInterval * DayHours + 20

\* Binary floating point, kept to FractionBits binary digits after the
\* point: a float is a whole number of units of 2^-FractionBits.  The sums of
\* these floats are taken exactly.
Ulps == 2 ^ FractionBits

\* n / d rounded to the nearest whole number, ties to even (d > 0)
RoundDiv(n, d) ==
    LET q == n \div d
        r == n % d
    IN  IF 2 * r < d THEN q
        ELSE IF 2 * r > d THEN q + 1
        ELSE IF q % 2 = 0 THEN q ELSE q + 1

\* variant: the minutes are divided as whole numbers
TotalHours_IntegerDivision(hours, minutes) ==
    hours * Ulps + (minutes \div 60) * Ulps

\* duration_hours + (duration_minutes / 60.0): the quotient is rounded to a
\* float, the int is added to it
TotalHours(hours, minutes) == hours * Ulps + RoundDiv(minutes * Ulps, 60)

\* variant: created_at is read from the clock again, an hour on
WorkoutRow_SecondSample(s, t) ==
    [workout_timestamp |-> t,
     exercise_type |-> s.exercise_type,
     duration_hours |-> TotalHours(s.duration_hours, s.duration_minutes),
     duration_minutes |-> s.duration_minutes,
     calories_burned |-> s.calories_burned,
     notes |-> s.notes,
     image_uri |-> IF s.image_uri # NoStr THEN s.image_uri ELSE NoStr,
     created_at |-> t + 1]

\* the row submit_workout builds
WorkoutRow(s, t) ==
    [workout_timestamp |-> t,
     exercise_type |-> s.exercise_type,
     duration_hours |-> TotalHours(s.duration_hours, s.duration_minutes),
     duration_minutes |-> s.duration_minutes,
     calories_burned |-> s.calories_burned,
     notes |-> s.notes,
     image_uri |-> IF s.image_uri # NoStr THEN s.image_uri ELSE NoStr,
     created_at |-> t]

\* a row another session (or an earlier one) appended at time t
OtherWorkoutRow(t) ==
    [workout_timestamp |-> t, exercise_type |-> "Cycling",
     duration_hours |-> TotalHours(1, 0), duration_minutes |-> 0,
     calories_burned |-> 50, notes |-> "", image_uri |-> NoStr,
     created_at |-> t]

\* the rows of earlier days the table can hold when the session starts: one
\* of WeekInterval days, one of WeekInterval - 1 days before the first day
OldRows ==
    << [OtherWorkoutRow(0) EXCEPT !.calories_burned = 7],
       [OtherWorkoutRow(DayHours) EXCEPT !.calories_burned = 6] >>

\* a table that holds as many rows of earlier days as the history shows,
\* appended half a day apart
FullRows ==
    [i \in 1..HistoryLimit |-> OtherWorkoutRow((i - 1) * (DayHours \div 2))]

\* SUM(col) over rows, COALESCE(..., 0) for no rows
RECURSIVE SumCol(_, _)
SumCol(rows, col) ==
    IF rows = <<>> THEN 0
    ELSE Head(rows)[col] + SumCol(Tail(rows), col)

\* the orders ORDER BY <key> DESC can return rows in: sequences of row
\* numbers, rows with equal keys in any order
RECURSIVE OrdersOf(_, _)
OrdersOf(keys, left) ==
    IF left = {} THEN {<<>>}
    ELSE UNION { {<<i>> \o rest : rest \in OrdersOf(keys, left \ {i})} :
                 i \in {k \in left : \A m \in left : keys[k] >= keys[m]} }

OrdersDesc(keys) == OrdersOf(keys, DOMAIN keys)

\* ORDER BY workout_timestamp DESC
WorkoutOrders(rows) ==
    OrdersDesc([i \in DOMAIN rows |-> rows[i].workout_timestamp])

Min(a, b) == IF a <= b THEN a ELSE b

\* SELECT workout_timestamp, exercise_type, duration_hours, duration_minutes,
\*        calories_burned, notes ... ORDER BY workout_timestamp DESC LIMIT 10
HistoryColumns(r) ==
    [workout_timestamp |-> r.workout_timestamp,
     exercise_type |-> r.exercise_type,
     duration_hours |-> r.duration_hours,
     duration_minutes |-> r.duration_minutes,
     calories_burned |-> r.calories_burned,
     notes |-> r.notes]

\* variant: no ORDER BY, the rows come in the order they were appended
WorkoutHistoryQuery_Unordered(rows, p) ==
    [i \in 1..Min(Len(rows), HistoryLimit) |-> HistoryColumns(rows[i])]

WorkoutHistoryQuery(rows, p) ==
    [i \in 1..Min(Len(rows), HistoryLimit) |-> HistoryColumns(rows[p[i]])]

\* WHERE DATE(workout_timestamp) = CURRENT_DATE()
InToday(r, today) == DateOf(r.workout_timestamp) = today

\* WHERE DATE(workout_timestamp) >= DATE_SUB(CURRENT_DATE(), INTERVAL 7 DAY)
InWeek(r, today) == DateOf(r.workout_timestamp) >= today - WeekInterval

\* variant: a failed history query takes the success message back
get_workout_history_Fatal(s, rows, ok, p) ==
    IF ok THEN [s EXCEPT !.workout_history = WorkoutHistoryQuery(rows, p)]
    ELSE [s EXCEPT !.error_message = <<"Error loading history: ", "QueryError">>,
                   !.success_message = NoStr]

get_workout_history(s, rows, ok, p) ==
    IF ok THEN [s EXCEPT !.workout_history = WorkoutHistoryQuery(rows, p)]
    ELSE [s EXCEPT !.error_message = <<"Error loading history: ", "QueryError">>]

\* variant: no COALESCE, a sum over no rows is an error
calculate_daily_totals_NoCoalesce(s, rows, today, ok) ==
    LET keep(r) == InToday(r, today)
    IN  IF ok /\ SelectSeq(rows, keep) # <<>>
        THEN [s EXCEPT !.daily_total_hours =
                           SumCol(SelectSeq(rows, keep), "duration_hours"),
                       !.daily_total_calories =
                           SumCol(SelectSeq(rows, keep), "calories_burned")]
        ELSE [s EXCEPT !.error_message =
                           <<"Error calculating daily totals: ", "QueryError">>]

calculate_daily_totals(s, rows, today, ok) ==
    IF ok
    THEN LET keep(r) == InToday(r, today)
         IN  [s EXCEPT !.daily_total_hours =
                           SumCol(SelectSeq(rows, keep), "duration_hours"),
                       !.daily_total_calories =
                           SumCol(SelectSeq(rows, keep), "calories_burned")]
    ELSE [s EXCEPT !.error_message =
                       <<"Error calculating daily totals: ", "QueryError">>]

calculate_weekly_totals(s, rows, today, ok) ==
    IF ok
    THEN LET keep(r) == InWeek(r, today)
         IN  [s EXCEPT !.weekly_total_hours =
                           SumCol(SelectSeq(rows, keep), "duration_hours"),
                       !.weekly_total_calories =
                           SumCol(SelectSeq(rows, keep), "calories_burned")]
    ELSE [s EXCEPT !.error_message =
                       <<"Error calculating weekly totals: ", "QueryError">>]

\* outcomes of the three queries of one refresh
QueryOutcomes == [history : BOOLEAN, daily : BOOLEAN, weekly : BOOLEAN]

\* variant: the first query that fails ends the refresh
WorkoutRefresh_StopsAtFailure(s, rows, today, q, p) ==
    IF ~q.history THEN get_workout_history(s, rows, FALSE, p)
    ELSE IF ~q.daily
    THEN calculate_daily_totals(
             get_workout_history(s, rows, TRUE, p), rows, today, FALSE)
    ELSE calculate_weekly_totals(
             calculate_daily_totals(
                 get_workout_history(s, rows, TRUE, p), rows, today, TRUE),
             rows, today, q.weekly)

\* get_workout_history(); calculate_daily_totals(); calculate_weekly_totals()
WorkoutRefresh(s, rows, today, q, p) ==
    calculate_weekly_totals(
        calculate_daily_totals(
            get_workout_history(s, rows, q.history, p), rows, today, q.daily),
        rows, today, q.weekly)

Workout_on_mount(q) ==
    /\ app = "fitness"
    /\ Dispatch
    /\ \E p \in WorkoutOrders(table) :
          ws' = WorkoutRefresh(ws, table, DateOf(now), q, p)
    /\ UNCHANGED <<app, ms, table, gcs, now, inflight>>

----------------------------------------------------------------------------
(* WorkoutState: submit *)

\* variant: the duration is not validated
submit_workout_call_NoDurationCheck ==
    /\ app = "fitness"
    /\ Dispatch
    /\ LET s0 == [ws EXCEPT !.error_message = NoStr, !.success_message = NoStr]
       IN  IF s0.exercise_type = ""
           THEN /\ ws' = [s0 EXCEPT !.error_message =
                                        <<"Please select an exercise type!">>]
                /\ UNCHANGED inflight
           ELSE /\ inflight.submit < MaxInflight
                /\ ws' = [s0 EXCEPT !.is_loading = TRUE]
                /\ inflight' = [inflight EXCEPT !.submit = @ + 1]
    /\ UNCHANGED <<app, ms, table, gcs, now>>

\* variant: the duration is validated before the exercise type
submit_workout_call_DurationFirst ==
    /\ app = "fitness"
    /\ Dispatch
    /\ LET s0 == [ws EXCEPT !.error_message = NoStr, !.success_message = NoStr]
       IN  IF s0.duration_hours = 0 /\ s0.duration_minutes = 0
           THEN /\ ws' = [s0 EXCEPT !.error_message =
                                        <<"Please enter a duration!">>]
                /\ UNCHANGED inflight
           ELSE IF s0.exercise_type = ""
           THEN /\ ws' = [s0 EXCEPT !.error_message =
                                        <<"Please select an exercise type!">>]
                /\ UNCHANGED inflight
           ELSE /\ inflight.submit < MaxInflight
                /\ ws' = [s0 EXCEPT !.is_loading = TRUE]
                /\ inflight' = [inflight EXCEPT !.submit = @ + 1]
    /\ UNCHANGED <<app, ms, table, gcs, now>>

\* variant: the messages are cleared once the form has passed validation
submit_workout_call_ClearsWhenValid ==
    /\ app = "fitness"
    /\ Dispatch
    /\ IF ws.exercise_type = ""
       THEN /\ ws' = [ws EXCEPT !.error_message =
                                    <<"Please select an exercise type!">>]
            /\ UNCHANGED inflight
       ELSE IF ws.duration_hours = 0 /\ ws.duration_minutes = 0
       THEN /\ ws' = [ws EXCEPT !.error_message =
                                    <<"Please enter a duration!">>]
            /\ UNCHANGED inflight
       ELSE /\ inflight.submit < MaxInflight
            /\ ws' = [ws EXCEPT !.error_message = NoStr,
                                !.success_message = NoStr,
                                !.is_loading = TRUE]
            /\ inflight' = [inflight EXCEPT !.submit = @ + 1]
    /\ UNCHANGED <<app, ms, table, gcs, now>>

\* submit_workout up to its yield
submit_workout_call ==
    /\ app = "fitness"
    /\ Dispatch
    /\ LET s0 == [ws EXCEPT !.error_message = NoStr, !.success_message = NoStr]
       IN  IF s0.exercise_type = ""
           THEN /\ ws' = [s0 EXCEPT !.error_message =
                                        <<"Please select an exercise type!">>]
                /\ UNCHANGED inflight
           ELSE IF s0.duration_hours = 0 /\ s0.duration_minutes = 0
           THEN /\ ws' = [s0 EXCEPT !.error_message =
                                        <<"Please enter a duration!">>]
                /\ UNCHANGED inflight
           ELSE /\ inflight.submit < MaxInflight
                /\ ws' = [s0 EXCEPT !.is_loading = TRUE]
                /\ inflight' = [inflight EXCEPT !.submit = @ + 1]
    /\ UNCHANGED <<app, ms, table, gcs, now>>

\* variant: the form reset leaves the image alone
WorkoutClearForm_KeepsImage(s) ==
    [s EXCEPT !.notes = "", !.exercise_type = "", !.duration_hours = 0,
              !.duration_minutes = 0, !.calories_burned = 0]

\* the form reset of a successful submit_workout
WorkoutClearForm(s) ==
    clear_image_workout(
        [s EXCEPT !.notes = "", !.exercise_type = "", !.duration_hours = 0,
                  !.duration_minutes = 0, !.calories_burned = 0])

\* variant: the form is reset before the append is attempted
submit_workout_resume_ClearsFirst(append_ok, dt, q) ==
    /\ app = "fitness"
    /\ inflight.submit > 0
    /\ inflight' = [inflight EXCEPT !.submit = @ - 1]
    /\ now' = now + dt
    /\ IF ~append_ok
       THEN /\ ws' = [WorkoutClearForm(ws) EXCEPT
                         !.error_message = <<"Error: ", "AppendError">>,
                         !.is_loading = FALSE]
            /\ UNCHANGED table
       ELSE LET row == WorkoutRow(ws, now)
                rows == Append(table, row)
                s1 == [ws EXCEPT !.success_message =
                          <<"Workout recorded! ", ws.exercise_type, " for ",
                            ws.duration_hours, "h ", ws.duration_minutes, "m">>]
                s2 == WorkoutClearForm(s1)
            IN  /\ table' = rows
                /\ \E p \in WorkoutOrders(rows) :
                      ws' = [WorkoutRefresh(s2, rows, DateOf(now + dt), q, p)
                                EXCEPT !.is_loading = FALSE]
    /\ UNCHANGED <<app, ms, gcs, events>>

\* variant: an append that raises has written its row
submit_workout_resume_PartialWrite(append_ok, dt, q) ==
    /\ app = "fitness"
    /\ inflight.submit > 0
    /\ inflight' = [inflight EXCEPT !.submit = @ - 1]
    /\ now' = now + dt
    /\ IF ~append_ok
       THEN /\ ws' = [ws EXCEPT !.error_message = <<"Error: ", "AppendError">>,
                                !.is_loading = FALSE]
            /\ table' = Append(table, WorkoutRow(ws, now))
       ELSE LET row == WorkoutRow(ws, now)
                rows == Append(table, row)
                s1 == [ws EXCEPT !.success_message =
                          <<"Workout recorded! ", ws.exercise_type, " for ",
                            ws.duration_hours, "h ", ws.duration_minutes, "m">>]
                s2 == WorkoutClearForm(s1)
            IN  /\ table' = rows
                /\ \E p \in WorkoutOrders(rows) :
                      ws' = [WorkoutRefresh(s2, rows, DateOf(now + dt), q, p)
                                EXCEPT !.is_loading = FALSE]
    /\ UNCHANGED <<app, ms, gcs, events>>

\* submit_workout from its yield to its end.  append_ok: outcome of to_gbq;
\* dt: hours the clock advances between datetime.now() and the queries;
\* q: outcomes of the refresh queries
submit_workout_resume(append_ok, dt, q) ==
    /\ app = "fitness"
    /\ inflight.submit > 0
    /\ inflight' = [inflight EXCEPT !.submit = @ - 1]
    /\ now' = now + dt
    /\ IF ~append_ok
       THEN /\ ws' = [ws EXCEPT !.error_message = <<"Error: ", "AppendError">>,
                                !.is_loading = FALSE]
            /\ UNCHANGED table
       ELSE LET row == WorkoutRow(ws, now)
                rows == Append(table, row)
                s1 == [ws EXCEPT !.success_message =
                          <<"Workout recorded! ", ws.exercise_type, " for ",
                            ws.duration_hours, "h ", ws.duration_minutes, "m">>]
                s2 == WorkoutClearForm(s1)
            IN  /\ table' = rows
                /\ \E p \in WorkoutOrders(rows) :
                      ws' = [WorkoutRefresh(s2, rows, DateOf(now + dt), q, p)
                                EXCEPT !.is_loading = FALSE]
    /\ UNCHANGED <<app, ms, gcs, events>>

----------------------------------------------------------------------------
(* MealState: image handlers *)

\* a FoodAnalysis the model can return (validated against the schema)
FoodAnalyses ==
    { [image_description |-> "a salad", calorie_intake |-> 300],
      [image_description |-> "", calorie_intake |-> 0] }

FoodExtractions ==
    {[exc |-> "", result |-> r] : r \in FoodAnalyses} \cup
    {[exc |-> e, result |-> <<>>] : e \in {"APIError", "ValidationError"}}

RECURSIVE Meal_select_files(_, _)
Meal_select_files(s, files) ==
    IF files = <<>> THEN s
    ELSE LET f == Head(files)
             s1 == IF f.readable
                   THEN [s EXCEPT !.temp_file_data = f.data,
                                  !.image_preview = DataUrl(f.data)]
                   ELSE [s EXCEPT !.error_message =
                                      <<"Error loading image: ", "ReadError">>]
         IN  Meal_select_files(s1, Tail(files))

Meal_handle_file_select(files) ==
    /\ app = "meal"
    /\ Dispatch
    /\ ms' = Meal_select_files([ms EXCEPT !.error_message = NoStr], files)
    /\ UNCHANGED <<app, ws, table, gcs, now, inflight>>

analyze_food_image(s, x) ==
    IF s.image_uri = NoStr THEN [s |-> s, exc |-> "", called |-> FALSE]
    ELSE IF x.exc = ""
    THEN [s |-> [s EXCEPT !.food_description = x.result.image_description,
                          !.calorie_estimate = x.result.calorie_intake,
                          !.notes = <<x.result.image_description, " (Est. ",
                                      x.result.calorie_intake, " calories)">>],
          exc |-> "", called |-> TRUE]
    ELSE [s |-> [s EXCEPT !.error_message = <<"Error analyzing image: ", x.exc>>],
          exc |-> x.exc, called |-> TRUE]

Meal_handle_upload_and_analyze_call ==
    /\ app = "meal"
    /\ Dispatch
    /\ IF ms.temp_file_data = NoBytes
       THEN /\ ms' = [ms EXCEPT !.error_message =
                                    <<"Please select an image first!">>]
            /\ UNCHANGED inflight
       ELSE /\ inflight.analyze < MaxInflight
            /\ ms' = [ms EXCEPT !.is_analyzing = TRUE, !.error_message = NoStr]
            /\ inflight' = [inflight EXCEPT !.analyze = @ + 1]
    /\ UNCHANGED <<app, ws, table, gcs, now>>

Meal_handle_upload_and_analyze_resume(upload_ok, x) ==
    /\ app = "meal"
    /\ inflight.analyze > 0
    /\ inflight' = [inflight EXCEPT !.analyze = @ - 1]
    /\ IF ~upload_ok
       THEN /\ ms' = [ms EXCEPT !.error_message =
                                    <<"Error uploading image: ", "UploadError">>,
                                !.is_analyzing = FALSE]
            /\ UNCHANGED gcs
       ELSE LET filename == MealFilename(uuid4)
                s1 == [ms EXCEPT !.image_uri = GsUri(filename)]
                a == analyze_food_image(s1, x)
                s2 == IF a.exc = "" THEN a.s
                      ELSE [a.s EXCEPT !.error_message =
                                           <<"Error uploading image: ", a.exc>>]
            IN  /\ gcs' = Append(gcs, [name |-> filename,
                                       data |-> ms.temp_file_data])
                /\ ms' = [s2 EXCEPT !.is_analyzing = FALSE]
    /\ UNCHANGED <<app, ws, table, now, events>>

clear_image_meal(s) ==
    [s EXCEPT !.image_uri = NoStr, !.image_preview = NoStr,
              !.calorie_estimate = 0, !.food_description = "",
              !.temp_file_data = NoBytes]

Meal_clear_image ==
    /\ app = "meal"
    /\ Dispatch
    /\ ms' = clear_image_meal(ms)
    /\ UNCHANGED <<app, ws, table, gcs, now, inflight>>

\* the setter Reflex generates for notes
Meal_set_notes(value) ==
    /\ app = "meal"
    /\ Dispatch
    /\ ms' = [ms EXCEPT !.notes = value]
    /\ UNCHANGED <<app, ws, table, gcs, now, inflight>>

----------------------------------------------------------------------------
(* MealState: the meal_hour table, submit *)

\* strftime("%Y-%m-%d %H:%M:%S") of a time: date, hour, zero minutes and seconds
strftime(t) == <<DateOf(t), " ", t % DayHours, ":00:00">>

\* the place of a formatted time in the order of strings (fixed-width fields)
StringRank(str) == str[1] * DayHours + str[3]

\* variant: the hours are added to the hour of the day, the date is kept
record_time_with_notes_NoCarry(notes, calorie, t) ==
    [current_time |-> strftime(t),
     current_time_plus_8h |->
         <<DateOf(t), " ", (t + WindowHours) % DayHours, ":00:00">>,
     notes |-> notes,
     calorie |-> calorie]

\* record_time_with_notes: one clock sample, now and now + 8 hours
record_time_with_notes(notes, calorie, t) ==
    [current_time |-> strftime(t),
     current_time_plus_8h |-> strftime(t + WindowHours),
     notes |-> notes,
     calorie |-> calorie]

OtherMealRow(t) == record_time_with_notes(<<"other">>, 50, t)

OldMealRows == <<OtherMealRow(0), OtherMealRow(DayHours)>>

FullMealRows ==
    [i \in 1..HistoryLimit |-> OtherMealRow((i - 1) * (DayHours \div 2))]

\* ORDER BY current_time DESC
MealOrders(rows) ==
    OrdersDesc([i \in DOMAIN rows |-> StringRank(rows[i].current_time)])

\* SELECT current_time, current_time_plus_8h, notes, calorie ... LIMIT 10
MealHistoryQuery(rows, p) ==
    [i \in 1..Min(Len(rows), HistoryLimit) |-> rows[p[i]]]

get_meal_history(s, rows, ok, p) ==
    IF ok THEN [s EXCEPT !.meal_history = MealHistoryQuery(rows, p)]
    ELSE [s EXCEPT !.error_message = <<"Error loading history: ", "QueryError">>]

Meal_on_mount(ok) ==
    /\ app = "meal"
    /\ Dispatch
    /\ \E p \in MealOrders(table) : ms' = get_meal_history(ms, table, ok, p)
    /\ UNCHANGED <<app, ws, table, gcs, now, inflight>>

\* notes.strip() is empty: every piece of the text is white space
Whitespace == {"", " "}
StripIsEmpty(notes) == \A i \in DOMAIN notes : notes[i] \in Whitespace

\* submit_meal up to its yield
submit_meal_call ==
    /\ app = "meal"
    /\ Dispatch
    /\ LET s0 == [ms EXCEPT !.error_message = NoStr, !.success_message = NoStr]
       IN  IF StripIsEmpty(s0.notes)
           THEN /\ ms' = [s0 EXCEPT !.error_message =
                                        <<"Please enter a note about your meal!">>]
                /\ UNCHANGED inflight
           ELSE /\ inflight.submit < MaxInflight
                /\ ms' = [s0 EXCEPT !.is_loading = TRUE]
                /\ inflight' = [inflight EXCEPT !.submit = @ + 1]
    /\ UNCHANGED <<app, ws, table, gcs, now>>

\* submit_meal from its yield to its end
submit_meal_resume(append_ok, dt, query_ok) ==
    /\ app = "meal"
    /\ inflight.submit > 0
    /\ inflight' = [inflight EXCEPT !.submit = @ - 1]
    /\ now' = now + dt
    /\ LET df == record_time_with_notes(ms.notes, ms.calorie_estimate, now)
           s1 == [ms EXCEPT !.current_time = df.current_time,
                            !.window_end_time = df.current_time_plus_8h]
       IN  IF ~append_ok
           THEN /\ ms' = [s1 EXCEPT !.error_message = <<"Error: ", "AppendError">>,
                                    !.is_loading = FALSE]
                /\ UNCHANGED table
           ELSE LET rows == Append(table, df)
                    s2 == [s1 EXCEPT !.success_message =
                              <<"Meal recorded! Your 8-hour eating window ends at ">>
                              \o s1.window_end_time,
                              !.notes = NoStr]
                    s3 == clear_image_meal(s2)
                IN  /\ table' = rows
                    /\ \E p \in MealOrders(rows) :
                          ms' = [get_meal_history(s3, rows, query_ok, p)
                                    EXCEPT !.is_loading = FALSE]
    /\ UNCHANGED <<app, ws, gcs, events>>

----------------------------------------------------------------------------
(* Environment: the clock, and the other sessions that share the table *)

Tick ==
    /\ events < MaxEvents
    /\ events' = events + 1
    /\ now' = now + 1
    /\ UNCHANGED <<app, ws, ms, table, gcs, inflight>>

\* a submit of another session of the same tracker appends its row
OtherSessionAppend ==
    /\ events < MaxEvents
    /\ events' = events + 1
    /\ table' = Append(table, IF app = "fitness" THEN OtherWorkoutRow(now)
                                ELSE OtherMealRow(now))
    /\ UNCHANGED <<app, ws, ms, gcs, now, inflight>>

----------------------------------------------------------------------------
Init ==
    /\ app \in {"fitness", "meal"}
    /\ ws = WorkoutState0
    /\ ms = MealState0
    /\ table \in IF app = "fitness" THEN {<<>>, OldRows, FullRows}
                 ELSE {<<>>, OldMealRows, FullMealRows}
    /\ gcs = <<>>
    /\ now \in IF app = "fitness" THEN {Noon} ELSE {Noon, Evening}
    /\ inflight = NoInflight
    /\ events = 0

\* the inputs of the session's events: the strings typed into the form, the
\* files dropped, the outcomes of the extraction
WorkoutNext(I) ==
    \/ \E v \in I.notes : Workout_set_notes(v)
    \/ \E v \in I.exercise : Workout_set_exercise_type(v)
    \/ \E v \in I.hours : set_duration_hours(v)
    \/ \E v \in I.minutes : set_duration_minutes(v)
    \/ \E v \in I.calories : set_calories_burned(v)
    \/ \E files \in I.files : Workout_handle_file_select(files)
    \/ Workout_handle_upload_and_analyze_call
    \/ \E ok \in BOOLEAN, x \in I.extractions :
          Workout_handle_upload_and_analyze_resume(ok, x)
    \/ Workout_clear_image
    \/ submit_workout_call
    \/ \E ok \in BOOLEAN, dt \in 0..1, q \in QueryOutcomes :
          submit_workout_resume(ok, dt, q)
    \/ \E q \in QueryOutcomes : Workout_on_mount(q)

MealNext(I) ==
    \/ \E v \in I.notes : Meal_set_notes(v)
    \/ \E files \in I.files : Meal_handle_file_select(files)
    \/ Meal_handle_upload_and_analyze_call
    \/ \E ok \in BOOLEAN, x \in I.extractions :
          Meal_handle_upload_and_analyze_resume(ok, x)
    \/ Meal_clear_image
    \/ submit_meal_call
    \/ \E ok \in BOOLEAN, dt \in 0..1, query_ok \in BOOLEAN :
          submit_meal_resume(ok, dt, query_ok)
    \/ \E ok \in BOOLEAN : Meal_on_mount(ok)

\* what the session can type, drop and get back from the vision model
WorkoutInputs ==
    [notes |-> {"my run"}, exercise |-> {"Running"},
     hours |-> {"1", "-1", "abc"}, minutes |-> {"", "30"}, calories |-> {"100"},
     files |-> FileLists, extractions |-> WorkoutExtractions]

MealInputs ==
    [notes |-> {<<"lunch">>, <<" ">>},
     files |-> FileLists, extractions |-> FoodExtractions]

Next ==
    \/ WorkoutNext(WorkoutInputs)
    \/ MealNext(MealInputs)
    \/ Tick
    \/ OtherSessionAppend

Spec == Init /\ [][Next]_vars

\* the continuations the event loop runs after a yield
Workout_analyze_finishes ==
    \E ok \in BOOLEAN, x \in WorkoutInputs.extractions :
        Workout_handle_upload_and_analyze_resume(ok, x)
Workout_submit_finishes ==
    \E ok \in BOOLEAN, dt \in 0..1, q \in QueryOutcomes :
        submit_workout_resume(ok, dt, q)
Meal_analyze_finishes ==
    \E ok \in BOOLEAN, x \in MealInputs.extractions :
        Meal_handle_upload_and_analyze_resume(ok, x)
Meal_submit_finishes ==
    \E ok \in BOOLEAN, dt \in 0..1, query_ok \in BOOLEAN :
        submit_meal_resume(ok, dt, query_ok)

\* a suspended handler is resumed, and each collaborator call it makes
\* returns or raises (the clients time out)
FairSpec ==
    /\ Spec
    /\ WF_vars(Workout_analyze_finishes)
    /\ WF_vars(Workout_submit_finishes)
    /\ WF_vars(Meal_analyze_finishes)
    /\ WF_vars(Meal_submit_finishes)

----------------------------------------------------------------------------
(* Views of the draft used by the properties *)

WorkoutForm(s) ==
    <<s.notes, s.exercise_type, s.duration_hours, s.duration_minutes,
      s.calories_burned>>
WorkoutImage(s) ==
    <<s.temp_file_data, s.image_preview, s.image_uri, s.workout_description>>
WorkoutAggregates(s) ==
    <<s.workout_history, s.daily_total_hours, s.daily_total_calories,
      s.weekly_total_hours, s.weekly_total_calories>>
MealForm(s) == <<s.notes>>
MealImage(s) ==
    <<s.temp_file_data, s.image_preview, s.image_uri, s.food_description,
      s.calorie_estimate>>

ReadableLists == {files \in FileLists : files # <<>> /\ files[1].readable}
FailedExtractions(X) == {x \in X : x.exc # ""}

----------------------------------------------------------------------------
(* C1: selecting an image stores its bytes and preview and clears the
   image_uri and the extracted fields left by an earlier image. *)
C1_SelectClearsStaleAnalysis ==
    [][ \A files \in ReadableLists :
          /\ Workout_handle_file_select(files) =>
                /\ ws'.temp_file_data = files[1].data
                /\ ws'.image_preview = DataUrl(files[1].data)
                /\ ws'.image_uri = NoStr
                /\ ws'.workout_description = ""
          /\ Meal_handle_file_select(files) =>
                /\ ms'.temp_file_data = files[1].data
                /\ ms'.image_preview = DataUrl(files[1].data)
                /\ ms'.image_uri = NoStr
                /\ ms'.food_description = ""
                /\ ms'.calorie_estimate = 0 ]_vars

(* C2: a failed append leaves the form fields and the image_uri as they
   were, sets an error message and no success message, adds no row and
   clears is_loading. *)
C2_FailedAppendKeepsDraft ==
    [][ /\ \A dt \in 0..1, q \in QueryOutcomes :
              submit_workout_resume(FALSE, dt, q) =>
                 /\ WorkoutForm(ws)' = WorkoutForm(ws)
                 /\ ws'.image_uri = ws.image_uri
                 /\ ws'.error_message # NoStr
                 /\ ws'.success_message = NoStr
                 /\ table' = table
                 /\ ~ws'.is_loading
        /\ \A dt \in 0..1, query_ok \in BOOLEAN :
              submit_meal_resume(FALSE, dt, query_ok) =>
                 /\ MealForm(ms)' = MealForm(ms)
                 /\ ms'.calorie_estimate = ms.calorie_estimate
                 /\ ms'.image_uri = ms.image_uri
                 /\ ms'.error_message # NoStr
                 /\ ms'.success_message = NoStr
                 /\ table' = table
                 /\ ~ms'.is_loading ]_vars

\* a submit whose append failed, on a filled form with an analysed image
C2_Witness ==
    \/ /\ ws.error_message = <<"Error: ", "AppendError">>
       /\ ws.exercise_type # "" /\ ws.duration_minutes # 0
       /\ ws.image_uri # NoStr /\ ~ws.is_loading
    \/ /\ ms.error_message = <<"Error: ", "AppendError">>
       /\ ms.notes # NoStr /\ ms.image_uri # NoStr /\ ~ms.is_loading

(* C3: when the extraction fails after a successful upload, the error
   shown is the analysis error, not the upload error, and the image_uri of
   that upload stays set. *)
C3_ExtractionFailureIsAnalysisError ==
    [][ /\ \A x \in FailedExtractions(WorkoutExtractions) :
              Workout_handle_upload_and_analyze_resume(TRUE, x) =>
                 /\ ws'.error_message = <<"Error analyzing image: ", x.exc>>
                 /\ ws'.image_uri = GsUri(WorkoutFilename(uuid4))
        /\ \A x \in FailedExtractions(FoodExtractions) :
              Meal_handle_upload_and_analyze_resume(TRUE, x) =>
                 /\ ms'.error_message = <<"Error analyzing image: ", x.exc>>
                 /\ ms'.image_uri = GsUri(MealFilename(uuid4)) ]_vars

(* C4: the weekly totals sum exactly the rows dated today - 6 days or
   later; a row dated today - 7 days is not counted. *)
InTrailingWeek(r, today) == DateOf(r.workout_timestamp) >= today - 6

C4_WeeklyWindowIsSevenDays ==
    [][ \A q \in QueryOutcomes :
          (q.weekly /\ Workout_on_mount(q)) =>
             LET keep(r) == InTrailingWeek(r, DateOf(now))
             IN  /\ ws'.weekly_total_hours =
                       SumCol(SelectSeq(table, keep), "duration_hours")
                 /\ ws'.weekly_total_calories =
                       SumCol(SelectSeq(table, keep), "calories_burned") ]_vars

(* C5: two invocations of handle_upload_and_analyze are never in flight
   together, nor two of submit: a second one runs only after the first has
   finished. *)
C5_OneInvocationInFlight ==
    /\ inflight.analyze <= 1
    /\ inflight.submit <= 1

\* a second analysis in flight after the first has finished with its upload
C5_Witness ==
    /\ inflight.analyze = 1
    /\ Len(gcs) >= 1

(* C6: every invocation of analyze or submit eventually ends with its busy
   flag cleared; a collaborator failure leaves an error message and no busy
   flag. *)
Busy == ws.is_analyzing \/ ws.is_loading \/ ms.is_analyzing \/ ms.is_loading

C6_FailureSurfaces ==
    /\ \A ok \in BOOLEAN, x \in WorkoutExtractions :
          (Workout_handle_upload_and_analyze_resume(ok, x)
             /\ (~ok \/ x.exc # "")) =>
                ws'.error_message # NoStr /\ ~ws'.is_analyzing
    /\ \A ok \in BOOLEAN, dt \in 0..1, q \in QueryOutcomes :
          (submit_workout_resume(ok, dt, q)
             /\ (~ok \/ ~q.history \/ ~q.daily \/ ~q.weekly)) =>
                ws'.error_message # NoStr /\ ~ws'.is_loading
    /\ \A ok \in BOOLEAN, x \in FoodExtractions :
          (Meal_handle_upload_and_analyze_resume(ok, x)
             /\ (~ok \/ x.exc # "")) =>
                ms'.error_message # NoStr /\ ~ms'.is_analyzing
    /\ \A ok \in BOOLEAN, dt \in 0..1, query_ok \in BOOLEAN :
          (submit_meal_resume(ok, dt, query_ok) /\ (~ok \/ ~query_ok)) =>
                ms'.error_message # NoStr /\ ~ms'.is_loading

C6_InvocationsFinish ==
    /\ Busy ~> ~Busy
    /\ [][C6_FailureSurfaces]_vars

\* an analysis that failed in its extraction has finished
C6_Witness ==
    /\ ws.error_message = <<"Error uploading image: ", "APIError">>
    /\ ~Busy
    /\ inflight = NoInflight

(* C7: a submit that fails validation makes no collaborator call, adds no
   row and leaves form fields, image state and busy flags unchanged. *)
C7_InvalidSubmitHasNoEffect ==
    [][ /\ (submit_workout_call
              /\ (ws.exercise_type = ""
                    \/ (ws.duration_hours = 0 /\ ws.duration_minutes = 0))) =>
                 /\ inflight' = inflight
                 /\ table' = table /\ gcs' = gcs
                 /\ WorkoutForm(ws)' = WorkoutForm(ws)
                 /\ WorkoutImage(ws)' = WorkoutImage(ws)
                 /\ WorkoutAggregates(ws)' = WorkoutAggregates(ws)
                 /\ ws'.is_loading = ws.is_loading
                 /\ ws'.is_analyzing = ws.is_analyzing
        /\ (submit_meal_call /\ StripIsEmpty(ms.notes)) =>
                 /\ inflight' = inflight
                 /\ table' = table /\ gcs' = gcs
                 /\ MealForm(ms)' = MealForm(ms)
                 /\ MealImage(ms)' = MealImage(ms)
                 /\ ms'.meal_history = ms.meal_history
                 /\ ms'.is_loading = ms.is_loading
                 /\ ms'.is_analyzing = ms.is_analyzing ]_vars

\* a submit refused for its duration, and one refused for a blank note
C7_Witness ==
    \/ /\ ws.error_message = <<"Please enter a duration!">>
       /\ ws.exercise_type # ""
    \/ /\ ms.error_message = <<"Please enter a note about your meal!">>
       /\ ms.notes = <<" ">>

(* C8: the fitness submit checks the category first: with no category the
   error is the missing-category one whatever the durations are, and the
   missing-duration error is reported only with a category and both
   durations zero. *)
C8_CategoryCheckedFirst ==
    [][ submit_workout_call =>
          /\ ws.exercise_type = "" =>
                ws'.error_message = <<"Please select an exercise type!">>
          /\ ws'.error_message = <<"Please enter a duration!">> <=>
                (ws.exercise_type # ""
                   /\ ws.duration_hours = 0 /\ ws.duration_minutes = 0) ]_vars

\* the missing-category error on a form whose durations are not zero
C8_Witness ==
    /\ ws.error_message = <<"Please select an exercise type!">>
    /\ ws.exercise_type = ""
    /\ ws.duration_hours # 0

(* C9: analyze with no image bytes buffered sets the validation message and
   does nothing else: no upload, no extraction, no busy flag, image_uri and
   form fields unchanged. *)
C9_AnalyzeWithoutImageHasNoEffect ==
    [][ /\ (Workout_handle_upload_and_analyze_call
              /\ ws.temp_file_data = NoBytes) =>
                 /\ ws' = [ws EXCEPT !.error_message =
                                         <<"Please select an image first!">>]
                 /\ ~ws'.is_analyzing
                 /\ inflight' = inflight /\ gcs' = gcs /\ table' = table
        /\ (Meal_handle_upload_and_analyze_call
              /\ ms.temp_file_data = NoBytes) =>
                 /\ ms' = [ms EXCEPT !.error_message =
                                         <<"Please select an image first!">>]
                 /\ ~ms'.is_analyzing
                 /\ inflight' = inflight /\ gcs' = gcs /\ table' = table ]_vars

\* the validation message, on a draft that holds an earlier analysis
C9_Witness ==
    \/ /\ ws.error_message = <<"Please select an image first!">>
       /\ ws.exercise_type # ""
    \/ /\ ms.error_message = <<"Please select an image first!">>
       /\ ms.notes # NoStr

(* C10: the table is append-only: it changes only when the append of a submit
   succeeds, by exactly one row added at its end; the rows already present
   stay as they are. *)
C10_TableIsAppendOnly ==
    [][ table' # table =>
          /\ Len(table') = Len(table) + 1
          /\ SubSeq(table', 1, Len(table)) = table
          /\ \/ \E dt \in 0..1, q \in QueryOutcomes :
                   submit_workout_resume(TRUE, dt, q)
             \/ \E dt \in 0..1, query_ok \in BOOLEAN :
                   submit_meal_resume(TRUE, dt, query_ok)
             \/ OtherSessionAppend ]_vars

\* a row of this session appended after the rows of earlier days
C10_Witness ==
    /\ Len(table) = 3
    /\ \/ ws.success_message # NoStr
       \/ ms.success_message # NoStr

(* C11: after a successful submit whose history query succeeds, the list has
   min(rows, 10) entries in descending timestamp order and holds the new
   record ahead of every earlier one: at place k + 1 at the latest when k
   rows of the table carry a timestamp at least as late as its own, so
   first when none does. *)
NotEarlier(rows, key(_), t) ==
    Cardinality({i \in DOMAIN rows : key(rows[i]) >= t})

HistoryShape(h, rows, key(_)) ==
    /\ Len(h) = Min(Len(rows), HistoryLimit)
    /\ \A i \in 1..(Len(h) - 1) : key(h[i]) >= key(h[i + 1])

HoldsNewest(h, e, k) == \E i \in 1..Min(k + 1, Len(h)) : h[i] = e

WorkoutKey(r) == r.workout_timestamp
MealKey(r) == StringRank(r.current_time)

C11_NewRecordLeadsEarlierOnes ==
    [][ /\ \A dt \in 0..1, q \in QueryOutcomes :
              (q.history /\ submit_workout_resume(TRUE, dt, q)) =>
                 LET k == NotEarlier(table, WorkoutKey, now)
                 IN  /\ HistoryShape(ws'.workout_history, table', WorkoutKey)
                     /\ k < HistoryLimit =>
                           HoldsNewest(ws'.workout_history,
                                       HistoryColumns(WorkoutRow(ws, now)), k)
        /\ \A dt \in 0..1 :
              submit_meal_resume(TRUE, dt, TRUE) =>
                 LET k == NotEarlier(table, MealKey, now)
                 IN  /\ HistoryShape(ms'.meal_history, table', MealKey)
                     /\ k < HistoryLimit =>
                           HoldsNewest(ms'.meal_history,
                                       record_time_with_notes(
                                           ms.notes, ms.calorie_estimate, now),
                                       k) ]_vars

\* the new record first in a history cut at HistoryLimit entries
C11_Witness ==
    /\ Len(table) > HistoryLimit
    /\ \/ /\ ws.success_message # NoStr
          /\ Len(ws.workout_history) = HistoryLimit
          /\ ws.workout_history[1].exercise_type = "Running"
       \/ /\ ms.success_message # NoStr
          /\ Len(ms.meal_history) = HistoryLimit
          /\ ms.meal_history[1].notes = <<"lunch">>

\* C11 as stated: the new record is the first entry, whatever else the table
\* holds
C11_NewRecordIsFirst ==
    [][ /\ \A dt \in 0..1, q \in QueryOutcomes :
              (q.history /\ submit_workout_resume(TRUE, dt, q)) =>
                 /\ HistoryShape(ws'.workout_history, table', WorkoutKey)
                 /\ HoldsNewest(ws'.workout_history,
                                HistoryColumns(WorkoutRow(ws, now)), 0)
        /\ \A dt \in 0..1 :
              submit_meal_resume(TRUE, dt, TRUE) =>
                 /\ HistoryShape(ms'.meal_history, table', MealKey)
                 /\ HoldsNewest(ms'.meal_history,
                                record_time_with_notes(
                                    ms.notes, ms.calorie_estimate, now), 0) ]_vars

(* C12: a successful submit leaves every form field at its default, the
   image state (bytes, preview, image_uri, extracted description and calorie
   estimate) empty, and a success message set. *)
C12_SuccessfulSubmitResetsDraft ==
    [][ /\ \A dt \in 0..1, q \in QueryOutcomes :
              submit_workout_resume(TRUE, dt, q) =>
                 /\ WorkoutForm(ws)' = WorkoutForm(WorkoutState0)
                 /\ WorkoutImage(ws)' = WorkoutImage(WorkoutState0)
                 /\ ws'.success_message # NoStr
        /\ \A dt \in 0..1, query_ok \in BOOLEAN :
              submit_meal_resume(TRUE, dt, query_ok) =>
                 /\ MealForm(ms)' = MealForm(MealState0)
                 /\ MealImage(ms)' = MealImage(MealState0)
                 /\ ms'.success_message # NoStr ]_vars

\* the row just appended carries an analysed image, the draft none
C12_Witness ==
    /\ table # <<>>
    /\ \/ /\ ws.success_message # NoStr
          /\ app = "fitness" /\ table[Len(table)].image_uri # NoStr
          /\ ws.image_uri = NoStr /\ ws.temp_file_data = NoBytes
          /\ ws.exercise_type = ""
       \/ /\ ms.success_message # NoStr
          /\ app = "meal" /\ table[Len(table)].calorie = 300
          /\ ms.calorie_estimate = 0 /\ ms.temp_file_data = NoBytes
          /\ ms.notes = NoStr

(* C13: when the append of a submit succeeds and a refresh query after it
   fails, the row is in the table, the draft is reset, the success message
   stays and the failure shows as an error message of that query only. *)
RefreshErrors ==
    { <<"Error loading history: ", "QueryError">>,
      <<"Error calculating daily totals: ", "QueryError">>,
      <<"Error calculating weekly totals: ", "QueryError">> }

C13_RefreshFailureKeepsSuccess ==
    [][ /\ \A dt \in 0..1, q \in QueryOutcomes :
              (submit_workout_resume(TRUE, dt, q)
                 /\ ~(q.history /\ q.daily /\ q.weekly)) =>
                 /\ table' = Append(table, WorkoutRow(ws, now))
                 /\ WorkoutForm(ws)' = WorkoutForm(WorkoutState0)
                 /\ WorkoutImage(ws)' = WorkoutImage(WorkoutState0)
                 /\ ws'.success_message =
                       <<"Workout recorded! ", ws.exercise_type, " for ",
                         ws.duration_hours, "h ", ws.duration_minutes, "m">>
                 /\ ws'.error_message \in RefreshErrors
                 /\ ~ws'.is_loading
        /\ \A dt \in 0..1 :
              submit_meal_resume(TRUE, dt, FALSE) =>
                 /\ table' = Append(table, record_time_with_notes(
                                               ms.notes, ms.calorie_estimate, now))
                 /\ MealForm(ms)' = MealForm(MealState0)
                 /\ MealImage(ms)' = MealImage(MealState0)
                 /\ ms'.success_message # NoStr
                 /\ ms'.error_message \in RefreshErrors
                 /\ ~ms'.is_loading ]_vars

\* a success message next to the error of a refresh query
C13_Witness ==
    \/ /\ ws.success_message # NoStr
       /\ ws.error_message \in RefreshErrors
       /\ table # <<>> /\ ws.workout_history = <<>>
    \/ /\ ms.success_message # NoStr
       /\ ms.error_message \in RefreshErrors
       /\ table # <<>> /\ ms.meal_history = <<>>

(* C14: the three refresh queries are isolated from each other: whichever of
   them fail, each of the others sets its value from the table, each failed
   one leaves its value as it was, and an error message is set. *)
HistoryOf(s) == s.workout_history
DailyOf(s) == <<s.daily_total_hours, s.daily_total_calories>>
WeeklyOf(s) == <<s.weekly_total_hours, s.weekly_total_calories>>

\* s1 is s0 after a refresh with outcomes q on rows
Isolated(s0, s1, rows, today, q) ==
    /\ IF q.history
       THEN \E p \in WorkoutOrders(rows) :
               HistoryOf(s1) = WorkoutHistoryQuery(rows, p)
       ELSE HistoryOf(s1) = HistoryOf(s0)
    /\ DailyOf(s1) =
          DailyOf(calculate_daily_totals(s0, rows, today, q.daily))
    /\ WeeklyOf(s1) =
          WeeklyOf(calculate_weekly_totals(s0, rows, today, q.weekly))
    /\ ~(q.history /\ q.daily /\ q.weekly) => s1.error_message \in RefreshErrors

C14_RefreshQueriesAreIsolated ==
    [][ \A q \in QueryOutcomes :
          /\ Workout_on_mount(q) => Isolated(ws, ws', table, DateOf(now), q)
          /\ \A dt \in 0..1 :
                submit_workout_resume(TRUE, dt, q) =>
                   Isolated(ws, ws', table', DateOf(now'), q) ]_vars

\* the daily query failed and left its totals at zero although the table
\* holds a workout of today, which the weekly totals and the history show
C14_Witness ==
    LET today(r) == InToday(r, DateOf(now))
        week(r) == InWeek(r, DateOf(now))
    IN  /\ ws.error_message = <<"Error calculating daily totals: ", "QueryError">>
        /\ SumCol(SelectSeq(table, today), "calories_burned") > 0
        /\ ws.daily_total_calories = 0
        /\ ws.weekly_total_calories =
              SumCol(SelectSeq(table, week), "calories_burned")
        /\ Len(ws.workout_history) = Min(Len(table), HistoryLimit)

(* C15: a refresh whose queries succeed on a table with no rows, or with no
   rows inside a window, gives totals of 0 hours and 0 calories for that
   window and sets no error message. *)
NoneToday ==
    LET keep(r) == InToday(r, DateOf(now)) IN SelectSeq(table, keep) = <<>>
NoneThisWeek ==
    LET keep(r) == InWeek(r, DateOf(now)) IN SelectSeq(table, keep) = <<>>

C15_EmptyWindowGivesZero ==
    [][ \A q \in QueryOutcomes :
          Workout_on_mount(q) =>
             /\ (q.daily /\ NoneToday) => DailyOf(ws') = <<0, 0>>
             /\ (q.weekly /\ NoneThisWeek) => WeeklyOf(ws') = <<0, 0>>
             /\ (q.history /\ q.daily /\ q.weekly) =>
                   ws'.error_message = ws.error_message ]_vars

\* a refresh has listed the rows of earlier days and found none of today
C15_Witness ==
    /\ app = "fitness"
    /\ table # <<>> /\ NoneToday
    /\ Len(ws.workout_history) = Min(Len(table), HistoryLimit)
    /\ DailyOf(ws) = <<0, 0>>
    /\ ws.weekly_total_calories > 0
    /\ ws.error_message = NoStr

(* C16: the total duration of a record submit persists is the float
   duration_hours + duration_minutes / 60.0: within one unit in the last
   place of hours + minutes / 60, and equal to it when the minutes are a
   multiple of 15 (1 h 30 min gives 1.5). *)
LastRow == table[Len(table)]

\* 60 * total - (60 * hours + minutes), in units in the last place
DurationError(row, hours, minutes) ==
    60 * row.duration_hours - (60 * hours + minutes) * Ulps

C16_TotalDurationIsNearestFloat ==
    [][ \A dt \in 0..1, q \in QueryOutcomes :
          submit_workout_resume(TRUE, dt, q) =>
             LET e == DurationError(LastRow', ws.duration_hours,
                                    ws.duration_minutes)
             IN  /\ e \in -60..60
                 /\ ws.duration_minutes % 15 = 0 => e = 0 ]_vars

\* the record of a workout of 1 h 30 min holds 1.5
C16_Witness ==
    /\ app = "fitness"
    /\ table # <<>>
    /\ LastRow.exercise_type = "Running"
    /\ LastRow.duration_minutes = 30
    /\ 2 * LastRow.duration_hours = 3 * Ulps

\* C16 as stated: 60 * total = 60 * hours + minutes for every record
C16_TotalDurationIsExact ==
    [][ \A dt \in 0..1, q \in QueryOutcomes :
          submit_workout_resume(TRUE, dt, q) =>
             DurationError(LastRow', ws.duration_hours,
                           ws.duration_minutes) = 0 ]_vars

(* C17: a meal record submit persists has current_time the formatted clock
   sample of the submit and current_time_plus_8h the formatted time 8 hours
   after that sample, on the next date when that is past midnight; a submit
   at 12:00:00 gives 20:00:00 of the same date. *)
\* the time a formatted "date hour:00:00" names
ParseTime(str) == str[1] * DayHours + str[3]

WellFormatted(str) ==
    /\ Len(str) = 4
    /\ str[1] \in Nat /\ str[2] = " "
    /\ str[3] \in 0..(DayHours - 1) /\ str[4] = ":00:00"

C17_WindowEndsEightHoursLater ==
    [][ \A dt \in 0..1, query_ok \in BOOLEAN :
          submit_meal_resume(TRUE, dt, query_ok) =>
             /\ WellFormatted(LastRow'.current_time)
             /\ WellFormatted(LastRow'.current_time_plus_8h)
             /\ ParseTime(LastRow'.current_time) = now
             /\ ParseTime(LastRow'.current_time_plus_8h) = now + 8 ]_vars

\* a record of noon that ends at 20:00:00, one of the evening that ends on
\* the next date
C17_Witness ==
    /\ app = "meal"
    /\ table # <<>>
    /\ LastRow.notes = <<"lunch">>
    /\ \/ /\ LastRow.current_time = <<WeekInterval, " ", 12, ":00:00">>
          /\ LastRow.current_time_plus_8h = <<WeekInterval, " ", 20, ":00:00">>
       \/ /\ LastRow.current_time = <<WeekInterval, " ", 20, ":00:00">>
          /\ LastRow.current_time_plus_8h = <<WeekInterval + 1, " ", 4, ":00:00">>

(* C18: a submit reads the clock once: the record it persists has
   workout_timestamp and created_at both equal to that reading, however far
   the clock moves on while the submit runs. *)
C18_OneClockSample ==
    [][ \A dt \in 0..1, q \in QueryOutcomes :
          submit_workout_resume(TRUE, dt, q) =>
             /\ LastRow'.workout_timestamp = now
             /\ LastRow'.created_at = now ]_vars

\* the clock has moved on during a submit whose record holds one reading
C18_Witness ==
    /\ app = "fitness"
    /\ table # <<>>
    /\ ws.success_message # NoStr
    /\ LastRow.exercise_type # "Cycling"
    /\ LastRow.created_at = LastRow.workout_timestamp
    /\ now = LastRow.created_at + 1
    /\ ws.daily_total_calories >= LastRow.calories_burned
    /\ ws.workout_history # <<>>

(* C19: when the upload of an analysis fails, the bytes and the preview
   stay, nothing is extracted, no form field changes and the upload error is
   shown, so that the analysis can be started again on the same selection. *)
UploadError == <<"Error uploading image: ", "UploadError">>

C19_FailedUploadKeepsSelection ==
    [][ /\ \A x \in WorkoutExtractions :
              Workout_handle_upload_and_analyze_resume(FALSE, x) =>
                 /\ ws' = [ws EXCEPT !.error_message = UploadError,
                                     !.is_analyzing = FALSE]
                 /\ ws'.temp_file_data # NoBytes
                 /\ ws'.image_preview = DataUrl(ws'.temp_file_data)
                 /\ gcs' = gcs /\ table' = table
        /\ \A x \in FoodExtractions :
              Meal_handle_upload_and_analyze_resume(FALSE, x) =>
                 /\ ms' = [ms EXCEPT !.error_message = UploadError,
                                     !.is_analyzing = FALSE]
                 /\ ms'.temp_file_data # NoBytes
                 /\ ms'.image_preview = DataUrl(ms'.temp_file_data)
                 /\ gcs' = gcs /\ table' = table ]_vars

\* the upload error next to a selection that is still there
C19_Witness ==
    \/ /\ ws.error_message = UploadError
       /\ ws.temp_file_data # NoBytes /\ ws.image_preview # NoStr
       /\ ws.image_uri = NoStr /\ ~ws.is_analyzing
    \/ /\ ms.error_message = UploadError
       /\ ms.temp_file_data # NoBytes /\ ms.image_preview # NoStr
       /\ ms.image_uri = NoStr /\ ~ms.is_analyzing

(* C20: a successful analysis overwrites the form with the extraction
   result, whatever the form held: exercise type, duration hours and minutes,
   calories and notes in the fitness tracker; the notes (the description with
   the calorie estimate appended) and the calorie estimate in the meal
   tracker. *)
Succeeded(X) == {x \in X : x.exc = ""}

C20_LastAnalysisWins ==
    [][ /\ \A x \in Succeeded(WorkoutExtractions) :
              Workout_handle_upload_and_analyze_resume(TRUE, x) =>
                 /\ ws'.exercise_type = x.result.exercise_type
                 /\ ws'.duration_hours = x.result.duration_hours
                 /\ ws'.duration_minutes = x.result.duration_minutes
                 /\ ws'.calories_burned = x.result.calories_burned
                 /\ ws'.notes = x.result.image_description
                 /\ ws'.workout_description = x.result.image_description
        /\ \A x \in Succeeded(FoodExtractions) :
              Meal_handle_upload_and_analyze_resume(TRUE, x) =>
                 /\ ms'.notes = <<x.result.image_description, " (Est. ",
                                  x.result.calorie_intake, " calories)">>
                 /\ ms'.calorie_estimate = x.result.calorie_intake
                 /\ ms'.food_description = x.result.image_description ]_vars

\* a form filled in by the second analysis of the session
C20_Witness ==
    /\ Len(gcs) = 2
    /\ \/ /\ ws.image_uri = GsUri(WorkoutFilename(2))
          /\ ws.exercise_type = "Yoga" /\ ws.duration_minutes = 20
          /\ ws.calories_burned = 100 /\ ws.notes = "a yoga session"
       \/ /\ ms.image_uri = GsUri(MealFilename(2))
          /\ ms.calorie_estimate = 300
          /\ ms.notes = <<"a salad", " (Est. ", 300, " calories)">>

(* C21: clear_image empties the buffered bytes, the preview, the image_uri
   and the extracted fields, and changes nothing else: the form fields, the
   messages, the busy flags, the history and the totals stay, and so do the
   table and the bucket. *)
C21_ClearImageResetsImageOnly ==
    [][ /\ Workout_clear_image =>
              /\ WorkoutImage(ws)' = WorkoutImage(WorkoutState0)
              /\ WorkoutForm(ws)' = WorkoutForm(ws)
              /\ ws'.success_message = ws.success_message
              /\ ws'.error_message = ws.error_message
              /\ ws'.is_loading = ws.is_loading
              /\ ws'.is_analyzing = ws.is_analyzing
              /\ WorkoutAggregates(ws)' = WorkoutAggregates(ws)
              /\ table' = table /\ gcs' = gcs
        /\ Meal_clear_image =>
              /\ MealImage(ms)' = MealImage(MealState0)
              /\ MealForm(ms)' = MealForm(ms)
              /\ ms'.success_message = ms.success_message
              /\ ms'.error_message = ms.error_message
              /\ ms'.is_loading = ms.is_loading
              /\ ms'.is_analyzing = ms.is_analyzing
              /\ ms'.meal_history = ms.meal_history
              /\ ms'.current_time = ms.current_time
              /\ ms'.window_end_time = ms.window_end_time
              /\ table' = table /\ gcs' = gcs ]_vars

\* an analysed image was cleared: the form still holds what the analysis
\* filled in, the image fields are empty
C21_Witness ==
    /\ gcs # <<>>
    /\ \/ /\ WorkoutImage(ws) = WorkoutImage(WorkoutState0)
          /\ ws.exercise_type = "Yoga" /\ ws.notes = "a yoga session"
       \/ /\ MealImage(ms) = MealImage(MealState0)
          /\ ms.notes = <<"a salad", " (Est. ", 300, " calories)">>

(* C22: while a collaborator call of the session is outstanding, a busy flag
   is shown: every step that calls a collaborator starts in a state whose
   flag is set (is_analyzing for the upload and the extraction, is_loading
   for the append and the refresh after it, either of them for the queries
   of on_mount), and is_analyzing is set exactly while an analysis is under
   way. *)
AnalyzeRuns ==
    \/ \E ok \in BOOLEAN, x \in WorkoutExtractions :
          Workout_handle_upload_and_analyze_resume(ok, x)
    \/ \E ok \in BOOLEAN, x \in FoodExtractions :
          Meal_handle_upload_and_analyze_resume(ok, x)

SubmitRuns ==
    \/ \E ok \in BOOLEAN, dt \in 0..1, q \in QueryOutcomes :
          submit_workout_resume(ok, dt, q)
    \/ \E ok \in BOOLEAN, dt \in 0..1, query_ok \in BOOLEAN :
          submit_meal_resume(ok, dt, query_ok)

MountRuns ==
    \/ \E q \in QueryOutcomes : Workout_on_mount(q)
    \/ \E ok \in BOOLEAN : Meal_on_mount(ok)

IsAnalyzing == IF app = "fitness" THEN ws.is_analyzing ELSE ms.is_analyzing
IsLoading == IF app = "fitness" THEN ws.is_loading ELSE ms.is_loading

C22_AnalyzeAndSubmitShowBusy ==
    /\ [](IsAnalyzing <=> inflight.analyze > 0)
    /\ [](inflight.submit > 0 => IsLoading)
    /\ [][ /\ AnalyzeRuns => IsAnalyzing
           /\ SubmitRuns => IsLoading ]_vars

C22_BusyWhileCallOutstanding ==
    /\ C22_AnalyzeAndSubmitShowBusy
    /\ [][ IsAnalyzing \/ IsLoading \/ ~MountRuns ]_vars

(* C23: an analysis that found bytes to upload makes one upload, of the
   bytes buffered now, under a key no object of the bucket has (also when an
   image_uri is already set), and the image_uri names that object; the
   extraction is called once, on that reference, and its outcome is final: a
   failed upload stores nothing and calls no extraction, a failed extraction
   is not tried again. *)
Names(objects) == {objects[i].name : i \in DOMAIN objects}

OneUpload(key, data, uri) ==
    /\ key \notin Names(gcs)
    /\ gcs' = Append(gcs, [name |-> key, data |-> data])
    /\ uri = GsUri(key)

C23_OneFreshUploadPerAnalysis ==
    /\ [](\A i, j \in DOMAIN gcs : gcs[i].name = gcs[j].name => i = j)
    /\ [][ /\ \A x \in WorkoutExtractions :
              /\ Workout_handle_upload_and_analyze_resume(TRUE, x) =>
                    /\ ws.temp_file_data # NoBytes
                    /\ \E u \in 1..(Len(gcs) + 1) :
                          /\ OneUpload(WorkoutFilename(u), ws.temp_file_data,
                                       ws'.image_uri)
                          /\ x.exc = "" =>
                                ws' = [analyze_workout_image(
                                          [ws EXCEPT !.image_uri =
                                               GsUri(WorkoutFilename(u))], x).s
                                       EXCEPT !.is_analyzing = FALSE]
                    /\ x.exc # "" => WorkoutForm(ws)' = WorkoutForm(ws)
              /\ Workout_handle_upload_and_analyze_resume(FALSE, x) =>
                    /\ gcs' = gcs
                    /\ ws'.image_uri = ws.image_uri
                    /\ WorkoutForm(ws)' = WorkoutForm(ws)
           /\ \A x \in FoodExtractions :
              /\ Meal_handle_upload_and_analyze_resume(TRUE, x) =>
                    /\ ms.temp_file_data # NoBytes
                    /\ \E u \in 1..(Len(gcs) + 1) :
                          /\ OneUpload(MealFilename(u), ms.temp_file_data,
                                       ms'.image_uri)
                          /\ x.exc = "" =>
                                ms' = [analyze_food_image(
                                          [ms EXCEPT !.image_uri =
                                               GsUri(MealFilename(u))], x).s
                                       EXCEPT !.is_analyzing = FALSE]
                    /\ x.exc # "" => MealForm(ms)' = MealForm(ms)
              /\ Meal_handle_upload_and_analyze_resume(FALSE, x) =>
                    /\ gcs' = gcs
                    /\ ms'.image_uri = ms.image_uri
                    /\ MealForm(ms)' = MealForm(ms) ]_vars

\* the same bytes analysed twice: two objects under two keys
C23_Witness ==
    /\ Len(gcs) = 2
    /\ gcs[1].data = gcs[2].data /\ gcs[1].name # gcs[2].name
    /\ \/ ws.image_uri = GsUri(gcs[2].name)
       \/ ms.image_uri = GsUri(gcs[2].name)

(* C24: the steps of one analysis come in order.  The step up to the yield
   sets is_analyzing and neither uploads nor writes the form; the upload
   starts with is_analyzing set; the extraction runs only after the upload
   has stored its object, on the image_uri that names this object; the form
   is written only by an extraction that succeeded. *)
LastObject == gcs[Len(gcs)]

C24_AnalysisStepsInOrder ==
    [][ /\ Workout_handle_upload_and_analyze_call =>
              /\ gcs' = gcs
              /\ WorkoutForm(ws)' = WorkoutForm(ws)
              /\ ws'.image_uri = ws.image_uri
              /\ inflight'.analyze > inflight.analyze => ws'.is_analyzing
        /\ Meal_handle_upload_and_analyze_call =>
              /\ gcs' = gcs
              /\ MealForm(ms)' = MealForm(ms)
              /\ ms'.image_uri = ms.image_uri
              /\ inflight'.analyze > inflight.analyze => ms'.is_analyzing
        /\ \A x \in WorkoutExtractions :
              /\ Workout_handle_upload_and_analyze_resume(TRUE, x) =>
                    /\ ws.is_analyzing
                    /\ Len(gcs') = Len(gcs) + 1
                    /\ LET s1 == [ws EXCEPT
                                     !.image_uri = GsUri(LastObject'.name)]
                           a == analyze_workout_image(s1, x)
                       IN  /\ a.called
                           /\ x.exc = "" =>
                                 ws' = [a.s EXCEPT !.is_analyzing = FALSE]
                           /\ x.exc # "" =>
                                 /\ WorkoutForm(ws)' = WorkoutForm(ws)
                                 /\ ws'.image_uri = s1.image_uri
              /\ Workout_handle_upload_and_analyze_resume(FALSE, x) =>
                    /\ ws.is_analyzing
                    /\ WorkoutForm(ws)' = WorkoutForm(ws)
                    /\ WorkoutImage(ws)' = WorkoutImage(ws)
        /\ \A x \in FoodExtractions :
              /\ Meal_handle_upload_and_analyze_resume(TRUE, x) =>
                    /\ ms.is_analyzing
                    /\ Len(gcs') = Len(gcs) + 1
                    /\ LET s1 == [ms EXCEPT
                                     !.image_uri = GsUri(LastObject'.name)]
                           a == analyze_food_image(s1, x)
                       IN  /\ a.called
                           /\ x.exc = "" =>
                                 ms' = [a.s EXCEPT !.is_analyzing = FALSE]
                           /\ x.exc # "" =>
                                 /\ MealForm(ms)' = MealForm(ms)
                                 /\ ms'.image_uri = s1.image_uri
              /\ Meal_handle_upload_and_analyze_resume(FALSE, x) =>
                    /\ ms.is_analyzing
                    /\ MealForm(ms)' = MealForm(ms)
                    /\ MealImage(ms)' = MealImage(ms) ]_vars

\* the first analysis of a session has run to its end: the object is
\* stored, the image_uri names it and the form holds the extraction
C24_Witness ==
    /\ Len(gcs) = 1
    /\ inflight.analyze = 0
    /\ \/ /\ ws.image_uri = GsUri(LastObject.name) /\ ~ws.is_analyzing
          /\ ws.workout_description = "a yoga session"
          /\ ws.exercise_type = "Yoga"
       \/ /\ ms.image_uri = GsUri(LastObject.name) /\ ~ms.is_analyzing
          /\ ms.food_description = "a salad"
          /\ ms.calorie_estimate = 300

(* C25: an extraction that fails, by an error of the model call or by a
   response that does not validate, leaves every form field and every
   extracted field as it was when the analysis started; the bytes and the
   preview stay as well. *)
WorkoutExtracted(s) == <<s.workout_description>>
MealExtracted(s) == <<s.food_description, s.calorie_estimate>>

C25_FailedExtractionWritesNoField ==
    [][ /\ \A x \in FailedExtractions(WorkoutExtractions) :
              Workout_handle_upload_and_analyze_resume(TRUE, x) =>
                 /\ WorkoutForm(ws)' = WorkoutForm(ws)
                 /\ WorkoutExtracted(ws)' = WorkoutExtracted(ws)
                 /\ ws'.temp_file_data = ws.temp_file_data
                 /\ ws'.image_preview = ws.image_preview
        /\ \A x \in FailedExtractions(FoodExtractions) :
              Meal_handle_upload_and_analyze_resume(TRUE, x) =>
                 /\ MealForm(ms)' = MealForm(ms)
                 /\ MealExtracted(ms)' = MealExtracted(ms)
                 /\ ms'.temp_file_data = ms.temp_file_data
                 /\ ms'.image_preview = ms.image_preview ]_vars

\* the second analysis of a session failed at the extraction: the fields
\* that the first one filled in are still there
C25_Witness ==
    /\ Len(gcs) = 2
    /\ \/ /\ ws.error_message \in
                {<<"Error uploading image: ", e>> :
                    e \in {"APIError", "ValidationError"}}
          /\ ws.image_uri = GsUri(WorkoutFilename(2))
          /\ ws.workout_description = "a yoga session"
          /\ ws.exercise_type = "Yoga" /\ ws.duration_minutes = 20
       \/ /\ ms.error_message \in
                {<<"Error uploading image: ", e>> :
                    e \in {"APIError", "ValidationError"}}
          /\ ms.image_uri = GsUri(MealFilename(2))
          /\ ms.food_description = "a salad" /\ ms.calorie_estimate = 300
          /\ ms.notes # NoStr

(* C26: the image_uri a submit writes into its row names an object of the
   bucket that holds the bytes buffered at the time of the submit, and the
   calorie estimate a meal row carries comes from an analysis of these
   bytes, so that an upload of them exists: no row carries the reference or
   the estimate of an image that has been replaced since. *)
UploadsOf(data) == {i \in DOMAIN gcs : gcs[i].data = data}

C26_RowDescribesBufferedImage ==
    [][ /\ \A dt \in 0..1, q \in QueryOutcomes :
              submit_workout_resume(TRUE, dt, q) =>
                 \/ LastRow'.image_uri = NoStr
                 \/ \E i \in UploadsOf(ws.temp_file_data) :
                       LastRow'.image_uri = GsUri(gcs[i].name)
        /\ \A dt \in 0..1, query_ok \in BOOLEAN :
              submit_meal_resume(TRUE, dt, query_ok) =>
                 \/ LastRow'.calorie = 0
                 \/ UploadsOf(ms.temp_file_data) # {} ]_vars

(* C27: every row a submit_workout appends has a non-empty exercise type
   and a total duration above zero, whatever the setters and the extraction
   have put into the form. *)
C27_RowHasPositiveDuration ==
    [][ \A dt \in 0..1, q \in QueryOutcomes :
          submit_workout_resume(TRUE, dt, q) =>
             /\ LastRow'.exercise_type # ""
             /\ LastRow'.duration_hours > 0 ]_vars

(* C28: in every state the preview is non-empty exactly when the buffered
   bytes are non-empty, whatever file was selected, so that the Analyze
   button (enabled on a non-empty preview) is enabled only when
   handle_upload_and_analyze finds bytes to upload. *)
C28_PreviewIffBytes ==
    /\ (ws.image_preview # NoStr) <=> (ws.temp_file_data # NoBytes)
    /\ (ms.image_preview # NoStr) <=> (ms.temp_file_data # NoBytes)

(* C29: the current_time and window_end_time the meal tracker displays are
   those of a row this session has appended, or empty when it has appended
   none; a submit whose append fails leaves them as they were. *)
OwnMealRows == {i \in DOMAIN table : table[i].notes # <<"other">>}

C29_DisplayedWindowIsOfAppendedRow ==
    /\ [](app = "meal" =>
            \/ ms.current_time = NoStr /\ ms.window_end_time = NoStr
            \/ \E i \in OwnMealRows :
                  /\ table[i].current_time = ms.current_time
                  /\ table[i].current_time_plus_8h = ms.window_end_time)
    /\ [][ \A dt \in 0..1, query_ok \in BOOLEAN :
             submit_meal_resume(FALSE, dt, query_ok) =>
                /\ ms'.current_time = ms.current_time
                /\ ms'.window_end_time = ms.window_end_time ]_vars

(* C30: the success message is shown only when the last submit of the
   session appended its row.  Every submit empties it before it validates
   the form, it stays empty while the submit is under way and when the
   append fails, it is set when the append has succeeded, and no step other
   than a successful append turns an empty success message into a shown
   one. *)
SuccessMessage ==
    IF app = "fitness" THEN ws.success_message ELSE ms.success_message

SubmitAppends ==
    \/ \E dt \in 0..1, q \in QueryOutcomes : submit_workout_resume(TRUE, dt, q)
    \/ \E dt \in 0..1, query_ok \in BOOLEAN :
          submit_meal_resume(TRUE, dt, query_ok)

SubmitFails ==
    \/ \E dt \in 0..1, q \in QueryOutcomes : submit_workout_resume(FALSE, dt, q)
    \/ \E dt \in 0..1, query_ok \in BOOLEAN :
          submit_meal_resume(FALSE, dt, query_ok)

C30_SuccessMessageIsOfLastSubmit ==
    /\ [](inflight.submit > 0 => SuccessMessage = NoStr)
    /\ [][ /\ submit_workout_call \/ submit_meal_call =>
                 SuccessMessage' = NoStr
           /\ SubmitFails => SuccessMessage' = NoStr /\ table' = table
           /\ SubmitAppends =>
                 SuccessMessage' # NoStr /\ Len(table') = Len(table) + 1
           /\ SuccessMessage = NoStr /\ SuccessMessage' # NoStr =>
                 SubmitAppends ]_vars

\* a submit that failed validation, after one that appended a row, has
\* emptied the success message
C30_Witness ==
    /\ SuccessMessage = NoStr
    /\ \/ /\ ws.error_message \in {<<"Please select an exercise type!">>,
                                   <<"Please enter a duration!">>}
          /\ \E i \in DOMAIN table : table[i].exercise_type # "Cycling"
       \/ /\ ms.error_message = <<"Please enter a note about your meal!">>
          /\ OwnMealRows # {}

====
